---- MODULE Spec2Model ----
(***************************************************************************)
(* The in-memory item store of app.js and its four request handlers        *)
(* (GET/POST/PUT/DELETE on /items).  Each handler runs to completion on    *)
(* Node's single thread, so each handler is one atomic action.             *)
(***************************************************************************)
EXTENDS Integers, Sequences, FiniteSets, TLC

\* ---- bounds ------------------------------------------------------------
\* POST is refused by the model once the store holds MaxItems items.
MaxItems == 2
\* longest :id path segment the model sends
MaxIdLen == 2

\* ---- inputs ------------------------------------------------------------
\* the value of req.body.name when the body carries no name
Undefined == "undefined"
\* request-body names
Names == {"Pen", Undefined}
\* characters of an :id path segment
IdChars == {"1", "2", "a", "-"}
\* the :id path segments (never empty: the route needs one segment)
IdStrings == UNION {[1..n -> IdChars] : n \in 1..MaxIdLen}

VARIABLES
  items,      \* the module-level array `items`
  prev,       \* `items` as the last handler found it
  req,        \* the last request: [op, id, name]
  res,        \* the responses the last handler sent, in order
  trace,      \* the source lines the last handler executed, in order
  thrown,     \* the exception the last handler raised, or "none"
  maxIssued,  \* history: the greatest id given out so far (seed included)
  pristine    \* history: no POST, PUT or DELETE has run yet

vars == <<items, prev, req, res, trace, thrown, maxIssued, pristine>>

\* ---- JavaScript helpers --------------------------------------------------
\* the Number NaN
NaN == [nan |-> TRUE, val |-> 0]

\* a finite Number
Num(n) == [nan |-> FALSE, val |-> n]

\* value of a digit character, 99 when the character is no digit at all
DigitVal(c) ==
  CASE c = "0" -> 0 [] c = "1" -> 1 [] c = "2" -> 2 [] c = "3" -> 3
    [] c = "4" -> 4 [] c = "5" -> 5 [] c = "6" -> 6 [] c = "7" -> 7
    [] c = "8" -> 8 [] c = "9" -> 9
    [] c \in {"a", "A"} -> 10 [] c \in {"b", "B"} -> 11
    [] c \in {"c", "C"} -> 12 [] c \in {"d", "D"} -> 13
    [] c \in {"e", "E"} -> 14 [] c \in {"f", "F"} -> 15
    [] OTHER -> 99

RECURSIVE SkipSpace(_)
\* parseInt ignores leading white space
SkipSpace(s) ==
  IF s # <<>> /\ Head(s) = " " THEN SkipSpace(Tail(s)) ELSE s

RECURSIVE ParseDigits(_, _, _, _)
\* the longest prefix of s made of digits of the radix; NaN when it is empty
ParseDigits(s, radix, acc, seen) ==
  IF s = <<>> \/ DigitVal(Head(s)) >= radix
    THEN IF seen THEN Num(acc) ELSE NaN
    ELSE ParseDigits(Tail(s), radix, acc * radix + DigitVal(Head(s)), TRUE)

\* parseInt(string) with no radix argument
parseInt(str) ==
  LET s1 == SkipSpace(str)
      neg == s1 # <<>> /\ Head(s1) = "-"
      s2 == IF s1 # <<>> /\ Head(s1) \in {"+", "-"} THEN Tail(s1) ELSE s1
      hex == Len(s2) >= 2 /\ s2[1] = "0" /\ s2[2] \in {"x", "X"}
      s3 == IF hex THEN Tail(Tail(s2)) ELSE s2
      r == ParseDigits(s3, IF hex THEN 16 ELSE 10, 0, FALSE)
  IN  IF r.nan THEN NaN
      ELSE IF neg THEN Num(0 - r.val) ELSE r

\* i.id === p for a stored id (always a finite Number) and a parsed id
StrictEq(id, p) == ~p.nan /\ id = p.val

\* ---- responses -----------------------------------------------------------
\* one response: status, kind of body, text of a text body, Items of a JSON body
Response(status, kind, text, payload) ==
  [status |-> status, kind |-> kind, text |-> text, payload |-> payload]

\* ---- the store -----------------------------------------------------------
\* a seed that differs from the one in the source
SeedItemsRenamed == <<[id |-> 1, name |-> "Item"]>>

\* let items = [{id: 1, name: 'Element'}]
SeedItems == <<[id |-> 1, name |-> "Element"]>>

\* a List that answers with the store in reverse order
ListResponseReversed(its) ==
  Response(200, "list", "", [k \in 1..Len(its) |-> its[Len(its) + 1 - k]])

\* res.json(items)
ListResponse(its) == Response(200, "list", "", its)

\* a new Item numbered by the current length, not the length plus one
NewItemOffByOne(its, name) == [id |-> Len(its), name |-> name]

\* const newItem = {id: items.length + 1, name: req.body.name}
NewItem(its, name) == [id |-> Len(its) + 1, name |-> name]

\* the positions of the Items whose id equals the parsed id
Matches(its, p) == {k \in 1..Len(its) : StrictEq(its[k].id, p)}

\* a find that returns the last match instead of the first
FindLast(its, p) ==
  IF Matches(its, p) = {} THEN 0
  ELSE CHOOSE k \in Matches(its, p) : \A j \in Matches(its, p) : j <= k

\* items.find(i => i.id === p): position of the first match, 0 for undefined
Find(its, p) ==
  IF Matches(its, p) = {} THEN 0
  ELSE CHOOSE k \in Matches(its, p) : \A j \in Matches(its, p) : k <= j

RECURSIVE FilterFirstOnly(_, _)
\* a filter that drops only the first match
FilterFirstOnly(its, p) ==
  IF its = <<>> THEN <<>>
  ELSE IF StrictEq(Head(its).id, p) THEN Tail(its)
  ELSE <<Head(its)>> \o FilterFirstOnly(Tail(its), p)

RECURSIVE Filter(_, _)
\* items.filter(i => i.id !== p)
Filter(its, p) ==
  IF its = <<>> THEN <<>>
  ELSE IF StrictEq(Head(its).id, p) THEN Filter(Tail(its), p)
  ELSE <<Head(its)>> \o Filter(Tail(its), p)

\* ---- the handlers ----------------------------------------------------------
\* the request record the model keeps of the last request
Request(op, id, name) == [op |-> op, id |-> id, name |-> name]

Init ==
  /\ items = SeedItems
  /\ prev = SeedItems
  /\ req = Request("none", <<>>, Undefined)
  /\ res = <<>>
  /\ trace = <<>>
  /\ thrown = "none"
  /\ maxIssued = 1
  /\ pristine = TRUE

\* app.get('/items')
List ==
  /\ prev' = items
  /\ req' = Request("GET", <<>>, Undefined)
  /\ res' = <<ListResponse(items)>>
  /\ trace' = <<158>>
  /\ thrown' = "none"
  /\ UNCHANGED <<items, maxIssued, pristine>>

\* app.post('/items')
Create(name) ==
  /\ Len(items) < MaxItems
  /\ LET newItem == NewItem(items, name)
     IN  /\ items' = Append(items, newItem)
         /\ res' = <<Response(201, "item", "", <<newItem>>)>>
         /\ maxIssued' = IF newItem.id > maxIssued THEN newItem.id
                         ELSE maxIssued
  /\ prev' = items
  /\ req' = Request("POST", <<>>, name)
  /\ trace' = <<164, 168, 169>>
  /\ thrown' = "none"
  /\ pristine' = FALSE

\* app.put('/items/:id')
Update(id, name) ==
  LET item == Find(items, parseInt(id))
  IN  /\ prev' = items
      /\ req' = Request("PUT", id, name)
      /\ pristine' = FALSE
      /\ UNCHANGED maxIssued
      /\ IF item = 0
           \* line 176 answers 404 and does not return; line 177 then
           \* assigns to a property of undefined, which throws a TypeError
           \* before anything is stored and before line 178
           THEN /\ res' = <<Response(404, "text", "Item not found", <<>>)>>
                /\ trace' = <<175, 176, 177>>
                /\ thrown' = "TypeError"
                /\ items' = items
           ELSE /\ items' = [items EXCEPT ![item].name = name]
                /\ res' = <<Response(200, "item", "", <<items'[item]>>)>>
                /\ trace' = <<175, 177, 178>>
                /\ thrown' = "none"

\* app.delete('/items/:id')
Delete(id) ==
  /\ items' = Filter(items, parseInt(id))
  /\ prev' = items
  /\ req' = Request("DELETE", id, Undefined)
  /\ res' = <<Response(204, "empty", "", <<>>)>>
  /\ trace' = <<184, 185>>
  /\ thrown' = "none"
  /\ pristine' = FALSE
  /\ UNCHANGED maxIssued

Next ==
  \/ List
  \/ \E name \in Names : Create(name)
  \/ \E id \in IdStrings, name \in Names : Update(id, name)
  \/ \E id \in IdStrings : Delete(id)

Spec == Init /\ [][Next]_vars

\* ---- properties ------------------------------------------------------------
\* the Number the last request's :id parses to
ParsedId == parseInt(req.id)

\* the last request was a PUT whose id matches no Item the handler found
UpdateMissed == req.op = "PUT" /\ Matches(prev, ParsedId) = {}

\* the 404 response of the PUT handler
NotFoundResponse == Response(404, "text", "Item not found", <<>>)

\* C1: no two Items currently in the store have the same id.
UniqueIds ==
  \A i, j \in 1..Len(items) : items[i].id = items[j].id => i = j

\* C2: Create(X) on a store of N items answers 201 with {id: N+1, name: X}
\* and leaves the previous store with that Item appended as its last element.
CreateAppends ==
  req.op = "POST" =>
    LET expected == [id |-> Len(prev) + 1, name |-> req.name]
    IN  /\ res = <<Response(201, "item", "", <<expected>>)>>
        /\ items = prev \o <<expected>>
        /\ Len(items) = Len(prev) + 1
        /\ thrown = "none"

\* a Create has run on a one-Item store whose Item has id 2
CreateWitness ==
  /\ req.op = "POST"
  /\ Len(prev) = 1
  /\ prev[1].id = 2
  /\ items[2] = [id |-> 2, name |-> "Pen"]

UpdateFirstMatchOnly ==
  (req.op = "PUT" /\ Matches(prev, ParsedId) # {}) =>
    LET first == CHOOSE k \in 1..Len(prev) :
                   /\ prev[k].id = ParsedId.val
                   /\ \A j \in 1..(k - 1) : prev[j].id # ParsedId.val
    IN  /\ Len(items) = Len(prev)
        /\ \A k \in 1..Len(prev) : items[k].id = prev[k].id
        /\ \A k \in 1..Len(prev) : k # first => items[k].name = prev[k].name
        /\ items[first].name = req.name
        /\ res = <<Response(200, "item", "",
                            <<[id |-> prev[first].id, name |-> req.name]>>)>>
        /\ thrown = "none"

\* an Update has renamed the first of two Items that share an id
UpdateWitness ==
  /\ req.op = "PUT"
  /\ Len(prev) = 2
  /\ prev[1].id = prev[2].id
  /\ items[1].name # prev[1].name
  /\ items[2] = prev[2]
  /\ res[1].status = 200

\* C5: Delete(id) answers 204 with an empty body whether or not anything
\* matched, leaves exactly the Items whose id differs from the given id in
\* their previous order, and a second Delete(id) would change nothing.
DeleteRemovesMatches ==
  req.op = "DELETE" =>
    /\ res = <<Response(204, "empty", "", <<>>)>>
    /\ items = SelectSeq(prev, LAMBDA i : ~StrictEq(i.id, ParsedId))
    /\ Filter(items, ParsedId) = items
    /\ thrown = "none"

\* a Delete has removed both of two Items that share an id
DeleteWitness ==
  /\ req.op = "DELETE"
  /\ Len(prev) = 2
  /\ prev[1].id = prev[2].id
  /\ items = <<>>

\* C6: List answers 200 with the complete store in store order and leaves the
\* store as it was.
ListNonDestructive ==
  req.op = "GET" =>
    /\ res = <<Response(200, "list", "", prev)>>
    /\ items = prev
    /\ thrown = "none"

\* a List has run on a store of two different Items
ListWitness ==
  /\ req.op = "GET"
  /\ Len(items) = 2
  /\ items[1] # items[2]

\* C7: a path id that is not a numeric string matches no Item: PUT answers
\* 404 'Item not found', DELETE answers 204, the store is unchanged and no
\* other error is produced.
NonNumericIdMatchesNothing ==
  (/\ req.op \in {"PUT", "DELETE"}
   /\ \E k \in 1..Len(req.id) : DigitVal(req.id[k]) >= 10) =>
    /\ items = prev
    /\ thrown = "none"
    /\ req.op = "PUT" => res = <<NotFoundResponse>>
    /\ req.op = "DELETE" => res = <<Response(204, "empty", "", <<>>)>>

\* C8: before any Create, Update or Delete has run the store holds exactly
\* {id: 1, name: 'Element'}, and List returns exactly that.
SeedOnly ==
  pristine =>
    /\ items = <<[id |-> 1, name |-> "Element"]>>
    /\ req.op = "GET" =>
         res = <<Response(200, "list", "", <<[id |-> 1, name |-> "Element"]>>)>>

\* a List has run before any Create, Update or Delete
SeedWitness == pristine /\ req.op = "GET" /\ Len(res) = 1

\* C9: an Update whose id matches no Item stops after the 404: it reaches
\* neither the name assignment (line 177) nor the success response (line
\* 178), and every Update sends exactly one response, the 404 or the 200.
UpdateMissingReturnsEarly ==
  /\ UpdateMissed =>
       /\ \A k \in 1..Len(trace) : trace[k] \notin {177, 178}
       /\ thrown = "none"
  /\ req.op = "PUT" => (Len(res) = 1 /\ res[1].status \in {404, 200})

\* C10: the id a Create assigns is strictly greater than every id assigned
\* before it, the seed's id included.
CreateIdsIncrease ==
  [][Len(items') = Len(items) + 1 =>
       items'[Len(items')].id > maxIssued]_vars

====
